---- MODULE Spec2Model ----
(***************************************************************************)
(* State-machine model of web/vns/models.py: the Django schema of the VNS  *)
(* web application and the three derived-value helpers of IPAssignment     *)
(* (get_ip, get_mask, get_mac).                                            *)
(*                                                                         *)
(* Conventions.  A text (Python str/unicode) is a sequence of one-character*)
(* strings.  A byte string is a sequence of integers in 0..255.  A call     *)
(* outcome is a record [err, val]: err = "none" and val the returned bytes, *)
(* or err the name of the raised exception and val = << >>.                *)
(* Unsigned integers wider than 31 bits are kept as byte sequences, since  *)
(* the model checker's integers are 32-bit signed.                         *)
(*                                                                         *)
(* The code is Python 2 on Django 1.x (__unicode__, IPAddressField): str   *)
(* is a byte string, hashlib.md5 takes the text as its ASCII bytes, and     *)
(* socket.inet_aton is the C library's (glibc).  Where Python 2 releases   *)
(* differ (struct.pack of a value past 32 bits) every outcome is kept.     *)
(***************************************************************************)
EXTENDS Integers, Sequences, FiniteSets, TLC

(***************************************************************************)
(* Characters                                                              *)
(***************************************************************************)

\* Printable ASCII, code points 32..126 in order (the double quote, the
\* backslash and the backtick stand as placeholders that match no character).
Ascii ==
  << " ", "!", "<quote>", "#", "$", "%", "&", "'", "(", ")", "*", "+",
     ",", "-", ".", "/", "0", "1", "2", "3", "4", "5", "6", "7",
     "8", "9", ":", ";", "<", "=", ">", "?", "@", "A", "B", "C",
     "D", "E", "F", "G", "H", "I", "J", "K", "L", "M", "N", "O",
     "P", "Q", "R", "S", "T", "U", "V", "W", "X", "Y", "Z", "[",
     "<backslash>", "]", "^", "_", "<backtick>", "a", "b", "c", "d", "e", "f", "g",
     "h", "i", "j", "k", "l", "m", "n", "o", "p", "q", "r", "s",
     "t", "u", "v", "w", "x", "y", "z", "{", "|", "}", "~" >>

NUL == ""

\* The vertical tab, code point 11 (the literal holds the character itself,
\* there being no escape for it).
VT == ""

\* Code point of a character, as ord() gives it (ASCII text only).
Ord(c) ==
  CASE c = "\t" -> 9
    [] c = "\n" -> 10
    [] c = VT -> 11
    [] c = "\f" -> 12
    [] c = "\r" -> 13
    [] OTHER -> 31 + (CHOOSE i \in 1..Len(Ascii) : Ascii[i] = c)

\* <ctype.h> isdigit in the C locale.
IsDigit(c) == c \in {"0", "1", "2", "3", "4", "5", "6", "7", "8", "9"}

\* <ctype.h> isspace in the C locale: space, \t, \n, \v, \f, \r.
IsSpace(c) == c \in {" ", "\t", "\n", VT, "\f", "\r"}

\* Value of a digit in strtoul's sense; 99 for a character that is no digit.
DigitValue(c) ==
  CASE c \in {"0", "1", "2", "3", "4", "5", "6", "7", "8", "9"} -> Ord(c) - 48
    [] c \in {"a", "b", "c", "d", "e", "f"} -> Ord(c) - 87
    [] c \in {"A", "B", "C", "D", "E", "F"} -> Ord(c) - 55
    [] OTHER -> 99

\* The character at 1-based position i of the C string s, NUL past its end.
At(s, i) == IF i >= 1 /\ i <= Len(s) THEN s[i] ELSE NUL

(***************************************************************************)
(* socket.inet_aton: CPython hands the text to the C library's inet_aton,  *)
(* which parses up to four numbers in C notation (0x hex, 0 octal,         *)
(* otherwise decimal) separated by dots.                                   *)
(***************************************************************************)

\* A 32-bit unsigned value as 4 bytes, most significant first.
Zero32 == <<0, 0, 0, 0>>

\* v * base + d on a 32-bit value; ovf is set once the result passes 0xffffffff.
MulAdd(v, ovf, base, d) ==
  LET t4 == v[4] * base + d
      t3 == v[3] * base + (t4 \div 256)
      t2 == v[2] * base + (t3 \div 256)
      t1 == v[1] * base + (t2 \div 256)
  IN  [val |-> <<t1 % 256, t2 % 256, t3 % 256, t4 % 256>>,
       ovf |-> ovf \/ (t1 \div 256) > 0]

\* strtoul's digit loop: consume digits of the base from position i on.
RECURSIVE StrtoulDigits(_, _, _, _, _)
StrtoulDigits(s, i, base, v, ovf) ==
  IF DigitValue(At(s, i)) < base
    THEN LET n == MulAdd(v, ovf, base, DigitValue(At(s, i)))
         IN  StrtoulDigits(s, i + 1, base, n.val, n.ovf)
    ELSE [val |-> v, ovf |-> ovf, endp |-> i]

\* strtoul(cp, &endp, 0) at position cp of s, where s[cp] is a digit: a 0x or
\* 0X prefix followed by a hex digit selects base 16, a leading 0 base 8,
\* anything else base 10.  "0x" with no hex digit after it parses as "0".
strtoul(s, cp) ==
  IF At(s, cp) = "0" /\ At(s, cp + 1) \in {"x", "X"}
       /\ DigitValue(At(s, cp + 2)) < 16
    THEN StrtoulDigits(s, cp + 2, 16, Zero32, FALSE)
  ELSE IF At(s, cp) = "0"
    THEN StrtoulDigits(s, cp, 8, Zero32, FALSE)
  ELSE StrtoulDigits(s, cp, 10, Zero32, FALSE)

\* val <= max[n] for max = { 0xffffffff, 0xffffff, 0xffff, 0xff }: the n
\* leading bytes of val are zero.
WithinMax(val, n) == \A k \in 1..n : val[k] = 0

InetAtonFail == [err |-> "socket.error", val |-> << >>]

\* The loop of inet_aton: parts are the bytes stored so far (pp - res.bytes).
RECURSIVE InetAtonLoop(_, _, _)
InetAtonLoop(s, cp, parts) ==
  IF ~IsDigit(At(s, cp)) THEN InetAtonFail
  ELSE LET r == strtoul(s, cp)
           c == At(s, r.endp)
       IN  IF r.ovf THEN InetAtonFail
           ELSE IF c = "."
             THEN IF Len(parts) > 2 \/ ~WithinMax(r.val, 3)
                    THEN InetAtonFail
                    ELSE InetAtonLoop(s, r.endp + 1, Append(parts, r.val[4]))
           ELSE IF c # NUL /\ ~IsSpace(c) THEN InetAtonFail
           ELSE IF ~WithinMax(r.val, Len(parts)) THEN InetAtonFail
           ELSE [err |-> "none",
                 val |-> parts \o SubSeq(r.val, Len(parts) + 1, 4)]

inet_aton(s) == InetAtonLoop(s, 1, << >>)

(***************************************************************************)
(* Python integers are unbounded: a non-negative one is kept here as its   *)
(* bytes, least significant first.                                         *)
(***************************************************************************)

\* 1 << n for n >= 0.
ShiftLeftOne(n) == [k \in 1..(n \div 8 + 1) |-> IF k = n \div 8 + 1 THEN 2 ^ (n % 8) ELSE 0]

\* x - 1 for x >= 1: borrow through the low zero bytes.
MinusOne(x) ==
  LET j == CHOOSE k \in 1..Len(x) : x[k] # 0 /\ \A m \in 1..(k - 1) : x[m] = 0
  IN  [k \in 1..Len(x) |-> IF k < j THEN 255 ELSE IF k = j THEN x[k] - 1 ELSE x[k]]

\* 0xffffffff ^ x: the low four bytes are complemented, the rest kept.
XorFFFFFFFF(x) ==
  [k \in 1..(IF Len(x) < 4 THEN 4 ELSE Len(x)) |->
     IF k <= 4 THEN 255 - (IF k <= Len(x) THEN x[k] ELSE 0) ELSE x[k]]

\* struct.pack('>I', x): the set of outcomes.  A value within 32 bits is
\* packed most significant byte first.  A wider value raises struct.error on
\* Python 2.7 and later; Python 2.5 and 2.6 warn and pack its low 32 bits.
StructPackBigEndianUInt(x) ==
  LET packed == [err |-> "none", val |-> <<x[4], x[3], x[2], x[1]>>]
  IN  IF \A k \in 5..Len(x) : x[k] = 0
        THEN {packed}
        ELSE {[err |-> "struct.error", val |-> << >>], packed}

(***************************************************************************)
(* hashlib.md5 (RFC 1321).  A 32-bit word is a pair <<high half, low half>>*)
(* of 16-bit integers.                                                     *)
(***************************************************************************)

\* floor(2^32 * abs(sin(i + 1))) for i = 0..63.
Md5K ==
  << <<55146,42104>>, <<59591,46934>>, <<9248,28891>>, <<49597,52974>>,
     <<62844,4015>>, <<18311,50730>>, <<43056,17939>>, <<64838,38145>>,
     <<27008,39128>>, <<35652,63407>>, <<65535,23473>>, <<35164,55230>>,
     <<27536,4386>>, <<64920,29075>>, <<42617,17294>>, <<18868,2081>>,
     <<63006,9570>>, <<49216,45888>>, <<9822,23121>>, <<59830,51114>>,
     <<54831,4189>>, <<580,5203>>, <<55457,59009>>, <<59347,64456>>,
     <<8673,52710>>, <<49975,2006>>, <<62677,3463>>, <<17754,5357>>,
     <<43491,59653>>, <<64751,41976>>, <<26479,729>>, <<36138,19594>>,
     <<65530,14658>>, <<34673,63105>>, <<28061,24866>>, <<64997,14348>>,
     <<42174,59972>>, <<19422,53161>>, <<63163,19296>>, <<48831,48240>>,
     <<10395,32454>>, <<60065,10234>>, <<54511,12421>>, <<1160,7429>>,
     <<55764,53305>>, <<59099,39397>>, <<8098,31992>>, <<50348,22117>>,
     <<62505,8772>>, <<17194,65431>>, <<43924,9127>>, <<64659,41017>>,
     <<25947,22979>>, <<36620,52370>>, <<65519,62589>>, <<34180,24017>>,
     <<28584,32335>>, <<65068,59104>>, <<41729,17172>>, <<19976,4513>>,
     <<63315,32386>>, <<48442,62005>>, <<10967,53947>>, <<60294,54161>> >>

\* Per-round left-rotation amounts.
Md5S ==
  << 7, 12, 17, 22, 7, 12, 17, 22, 7, 12, 17, 22, 7, 12, 17, 22,
     5, 9, 14, 20, 5, 9, 14, 20, 5, 9, 14, 20, 5, 9, 14, 20,
     4, 11, 16, 23, 4, 11, 16, 23, 4, 11, 16, 23, 4, 11, 16, 23,
     6, 10, 15, 21, 6, 10, 15, 21, 6, 10, 15, 21, 6, 10, 15, 21 >>

\* The initial state A, B, C, D: 0x67452301, 0xefcdab89, 0x98badcfe, 0x10325476.
Md5Init == << <<26437, 8961>>, <<61389, 43913>>, <<39098, 56574>>, <<4146, 21622>> >>

\* Addition modulo 2^32.
Add32(x, y) ==
  LET lo == x[2] + y[2]
      hi == x[1] + y[1] + (lo \div 65536)
  IN  <<hi % 65536, lo % 65536>>

\* Rotation to the left by s bits, 0 <= s < 32.
RotL32(x, s) ==
  LET y == IF s >= 16 THEN <<x[2], x[1]>> ELSE x
      p == 2 ^ (s % 16)
      q == 2 ^ (16 - (s % 16))
  IN  <<((y[1] * p) % 65536) + (y[2] \div q), ((y[2] * p) % 65536) + (y[1] \div q)>>

\* One bit of the round function f (0: F, 1: G, 2: H, 3: I) of RFC 1321:
\* F = (b & c) | (~b & d), G = (b & d) | (c & ~d), H = b ^ c ^ d,
\* I = c ^ (b | ~d).
Md5Bit(f, b, c, d) ==
  CASE f = 0 -> IF b = 1 THEN c ELSE d
    [] f = 1 -> IF d = 1 THEN b ELSE c
    [] f = 2 -> (b + c + d) % 2
    [] OTHER -> (c + (IF b = 1 \/ d = 0 THEN 1 ELSE 0)) % 2

\* The round function on the low n bits of three integers.
RECURSIVE Md5Mix(_, _, _, _, _)
Md5Mix(f, b, c, d, n) ==
  IF n = 0 THEN 0
  ELSE Md5Bit(f, b % 2, c % 2, d % 2)
         + 2 * Md5Mix(f, b \div 2, c \div 2, d \div 2, n - 1)

\* The round functions on 4-bit digits, tabulated.
Md5Nibble ==
  [f \in 0..3 |-> [b \in 0..15 |-> [c \in 0..15 |-> [d \in 0..15 |->
     Md5Mix(f, b, c, d, 4)]]]]

\* The round function on 16-bit halves, digit by digit.
Md5Half(f, b, c, d) ==
  Md5Nibble[f][b % 16][c % 16][d % 16]
    + 16 * Md5Nibble[f][(b \div 16) % 16][(c \div 16) % 16][(d \div 16) % 16]
    + 256 * Md5Nibble[f][(b \div 256) % 16][(c \div 256) % 16][(d \div 256) % 16]
    + 4096 * Md5Nibble[f][b \div 4096][c \div 4096][d \div 4096]

Md5F(f, b, c, d) == <<Md5Half(f, b[1], c[1], d[1]), Md5Half(f, b[2], c[2], d[2])>>

\* Index (0-based) of the message word round i uses.
Md5G(i) ==
  CASE i < 16 -> i
    [] i < 32 -> (5 * i + 1) % 16
    [] i < 48 -> (3 * i + 5) % 16
    [] OTHER -> (7 * i) % 16

\* Round i on the registers st = <<A, B, C, D>> with the block's 16 words M.
Md5Round(st, M, i) ==
  LET F == Md5F(i \div 16, st[2], st[3], st[4])
      sum == Add32(Add32(st[1], F), Add32(Md5K[i + 1], M[Md5G(i) + 1]))
  IN  <<st[4], Add32(st[2], RotL32(sum, Md5S[i + 1])), st[2], st[3]>>

\* The 64 rounds as a loop over s = <<registers, index of the next round>>.
RECURSIVE Md5Rounds(_, _)
Md5Rounds(M, s) ==
  IF s[2] = 64 THEN s[1]
  ELSE Md5Rounds(M, <<Md5Round(s[1], M, s[2]), s[2] + 1>>)

\* The 16 little-endian words of the 64-byte block starting after byte off.
Md5Words(bytes, off) ==
  [j \in 1..16 |-> <<bytes[off + 4 * j] * 256 + bytes[off + 4 * j - 1],
                     bytes[off + 4 * j - 2] * 256 + bytes[off + 4 * j - 3]>>]

\* The message padded to a multiple of 64 bytes: 0x80, zeros, and the bit
\* length as 8 little-endian bytes.
Md5Pad(msg) ==
  LET n == Len(msg)
      zeros == (119 - (n % 64)) % 64
      bits == 8 * n
  IN  msg \o <<128>> \o [k \in 1..zeros |-> 0]
          \o <<bits % 256, (bits \div 256) % 256, (bits \div 65536) % 256,
               bits \div 16777216, 0, 0, 0, 0>>

\* Process the blocks from byte offset off on.
RECURSIVE Md5Blocks(_, _, _)
Md5Blocks(st, bytes, off) ==
  IF off >= Len(bytes) THEN st
  ELSE LET r == Md5Rounds(Md5Words(bytes, off), <<st, 0>>)
       IN  Md5Blocks(<<Add32(st[1], r[1]), Add32(st[2], r[2]),
                       Add32(st[3], r[3]), Add32(st[4], r[4])>>, bytes, off + 64)

\* A word as 4 bytes, least significant first.
WordBytesLE(w) == <<w[2] % 256, w[2] \div 256, w[1] % 256, w[1] \div 256>>

\* hashlib.md5(text).digest(): the 16-byte digest of the text's ASCII bytes.
md5_digest(text) ==
  LET bytes == Md5Pad([k \in 1..Len(text) |-> Ord(text[k])])
      st == Md5Blocks(Md5Init, bytes, 0)
  IN  WordBytesLE(st[1]) \o WordBytesLE(st[2]) \o WordBytesLE(st[3]) \o WordBytesLE(st[4])

(***************************************************************************)
(* State                                                                   *)
(***************************************************************************)

VARIABLES
  self,           \* an IPAssignment instance: [topology, port, ip, mask]
  ret,            \* the last helper call on self: [op, err, val]
  calls,          \* per thread, a helper call in progress on self
  simulators,     \* table Simulator: id -> [name, ip]
  organizations,  \* table Organization: id -> [name, parentOrg]
  templates,      \* table TopologyTemplate: id -> [name, org]
  links,          \* table Link: id -> [port1, port2]
  ipassignments,  \* table IPAssignment: id -> [topology, port, ip, mask]
  status          \* the last save(): [model, pk, row, result], the result
                  \* "ok" or the exception raised

vars == <<self, ret, calls, simulators, organizations, templates, links,
          ipassignments, status>>

tables == <<simulators, organizations, templates, links, ipassignments, status>>

(***************************************************************************)
(* IPAssignment.get_ip, get_mask, get_mac                                  *)
(***************************************************************************)

Value(bytes) == [err |-> "none", val |-> bytes]
Raise(exc) == [err |-> exc, val |-> << >>]

\* get_ip: inet_aton(self.ip).
get_ip(rec) == inet_aton(rec.ip)

\* get_mask with the shift count misread as 32 - self.mask - 1.
get_mask_shift_slip(rec) ==
  IF 31 - rec.mask < 0
    THEN {Raise("ValueError")}
    ELSE StructPackBigEndianUInt(XorFFFFFFFF(ShiftLeftOne(31 - rec.mask)))

\* get_mask: struct.pack('>I', 0xffffffff ^ (1 << 32 - self.mask) - 1), which
\* Python reads as 0xffffffff ^ ((1 << (32 - self.mask)) - 1).  A negative
\* shift count raises ValueError.  The set of outcomes (see struct.pack).
get_mask(rec) ==
  IF 32 - rec.mask < 0
    THEN {Raise("ValueError")}
    ELSE StructPackBigEndianUInt(XorFFFFFFFF(MinusOne(ShiftLeftOne(32 - rec.mask))))

\* get_mac without the leading zero byte: digest()[0:6].
get_mac_no_prefix(rec) == Value(SubSeq(md5_digest(rec.ip), 1, 6))

\* get_mac: '\x00' + hashlib.md5(self.ip).digest()[0:5].
get_mac(rec) == Value(<<0>> \o SubSeq(md5_digest(rec.ip), 1, 5))

(***************************************************************************)
(* Inputs of the helper calls                                              *)
(***************************************************************************)

\* Fields joined by dots.
RECURSIVE Join(_)
Join(fields) ==
  IF Len(fields) = 0 THEN << >>
  ELSE IF Len(fields) = 1 THEN fields[1]
  ELSE fields[1] \o <<".">> \o Join(Tail(fields))

\* Field texts combined in every position of a dotted quad: plain decimal,
\* the largest byte, a value past 255, a leading zero, and an empty field.
QuadFields ==
  { <<"1">>, <<"2", "5", "5">>, <<"2", "5", "6">>, <<"0", "1", "0">>, << >> }

\* Field texts tried in one position at a time, the other fields being "1".
OddFields ==
  { <<"0">>, <<"0", "0">>, <<"0", "9">>, <<"0", "0", "8">>, <<"0", "3", "7", "7">>,
    <<"0", "4", "0", "0">>, <<"0", "x", "1", "0">>, <<"0", "X", "f", "F">>,
    <<"0", "x">>, <<"0", "x", "1", "0", "0">>, <<"1", "a">>, <<"-", "1">>,
    <<"+", "1">>, <<" ", "1">>, <<"0", "b", "1">> }

\* Last fields that probe the limits of the one-, two- and three-part forms.
WideFields ==
  { <<"2", "5", "5">>, <<"2", "5", "6">>,
    <<"6", "5", "5", "3", "5">>, <<"6", "5", "5", "3", "6">>,
    <<"1", "6", "7", "7", "7", "2", "1", "5">>,
    <<"1", "6", "7", "7", "7", "2", "1", "6">>,
    <<"4", "2", "9", "4", "9", "6", "7", "2", "9", "5">>,
    <<"4", "2", "9", "4", "9", "6", "7", "2", "9", "6">> }

\* What may follow a well-formed address.
Suffixes ==
  { <<" ">>, <<" ", "z">>, <<"z">>, <<"\t">>, <<VT>>, <<VT, "5">>, <<"\n">>,
    <<"\r", "\f">>, <<".">>, <<".", "5">> }

MaxFields == 5

SpecialTexts ==
  { << >>,
    <<"n", "o", "t", "-", "a", "n", "-", "i", "p">>,
    <<"9", "9", "9", ".", "1", ".", "1", ".", "1">>,
    <<"1", "0", ".", "0", ".", "0", ".", "1">>,
    <<"1", "0", ".", "0", ".", "0", ".", "2">>,
    <<" ", "1", ".", "2", ".", "3", ".", "4">> }

Texts ==
  { Join(q) : q \in [1..4 -> QuadFields] }
    \cup { Join([k \in 1..4 |-> IF k = j THEN f ELSE <<"1">>]) :
             j \in 1..4, f \in OddFields }
    \cup { Join([k \in 1..n |-> IF k = n THEN w ELSE <<"1">>]) :
             n \in 1..MaxFields, w \in WideFields }
    \cup { <<"1", ".", "2", ".", "3", ".", "4">> \o x : x \in Suffixes }
    \cup SpecialTexts

MaskBelow == 2
MaxMask == 34
Masks == (0 - MaskBelow)..MaxMask

DefaultText == <<"1", "0", ".", "0", ".", "0", ".", "1">>
DefaultInstance == [topology |-> 1, port |-> 1, ip |-> DefaultText, mask |-> 24]

\* Each helper reads one field: the instances vary the address with the mask
\* fixed, and the mask with the address fixed.
Instances ==
  { [DefaultInstance EXCEPT !.ip = t] : t \in Texts }
    \cup { [DefaultInstance EXCEPT !.mask = m] : m \in Masks }

NoCall == [op |-> "none", err |-> "none", val |-> << >>]
Outcome(op, r) == [op |-> op, err |-> r.err, val |-> r.val]

EmptyTable == << >>

\* An unset foreign key or primary key.
NULL == 0

\* No save() was called yet.
NoSave == [model |-> "none", pk |-> NULL, row |-> << >>, result |-> "ok"]

IdleTables ==
  /\ simulators = EmptyTable /\ organizations = EmptyTable
  /\ templates = EmptyTable /\ links = EmptyTable
  /\ ipassignments = EmptyTable /\ status = NoSave

(***************************************************************************)
(* Helper calls on one instance, one at a time                             *)
(***************************************************************************)

InitUtil ==
  /\ self \in Instances
  /\ ret = NoCall
  /\ calls = << >>
  /\ IdleTables

CallGetIp ==
  /\ ret' = Outcome("get_ip", get_ip(self))
  /\ UNCHANGED <<self, calls, tables>>

CallGetMask ==
  /\ \E r \in get_mask(self) : ret' = Outcome("get_mask", r)
  /\ UNCHANGED <<self, calls, tables>>

CallGetMac ==
  /\ ret' = Outcome("get_mac", get_mac(self))
  /\ UNCHANGED <<self, calls, tables>>

NextUtil == CallGetIp \/ CallGetMask \/ CallGetMac

SpecUtil == InitUtil /\ [][NextUtil]_vars

(***************************************************************************)
(* Properties of the helper calls                                          *)
(***************************************************************************)

\* The contiguous mask of a prefix length, stated byte by byte: byte k (most
\* significant first) has its min(8, max(0, bits - 8(k-1))) high bits set.
PrefixMaskBytes(bits) ==
  [k \in 1..4 |->
     LET left == bits - 8 * (k - 1)
         ones == IF left < 0 THEN 0 ELSE IF left > 8 THEN 8 ELSE left
     IN  256 - 2 ^ (8 - ones)]

\* C1: for a prefix length in 1..32 get_mask returns exactly 4 bytes, most
\* significant first, whose high `mask` bits are 1 and the rest 0; 24 gives
\* FF FF FF 00, 1 gives 80 00 00 00 and 32 gives FF FF FF FF.
C1_MaskOfPrefixLength ==
  (ret.op = "get_mask" /\ self.mask \in 1..32) =>
     /\ ret.err = "none"
     /\ Len(ret.val) = 4
     /\ ret.val = PrefixMaskBytes(self.mask)
     /\ self.mask = 24 => ret.val = <<255, 255, 255, 0>>
     /\ self.mask = 1 => ret.val = <<128, 0, 0, 0>>
     /\ self.mask = 32 => ret.val = <<255, 255, 255, 255>>

C1_Witness ==
  ret.op = "get_mask" /\ self.mask = 32 /\ ret.val = <<255, 255, 255, 255>>

\* C2: for a prefix length outside 1..32 get_mask fails and returns no bytes.
C2_MaskOutOfRangeFails ==
  (ret.op = "get_mask" /\ self.mask \notin 1..32) =>
     (ret.err # "none" /\ ret.val = << >>)

\* The dot-separated fields of a text.
RECURSIVE SplitDots(_, _)
SplitDots(s, field) ==
  IF Len(s) = 0 THEN <<field>>
  ELSE IF Head(s) = "." THEN <<field>> \o SplitDots(Tail(s), << >>)
  ELSE SplitDots(Tail(s), Append(field, Head(s)))

\* The decimal value of a digit string, capped at 256.
RECURSIVE DecimalValue(_, _)
DecimalValue(digits, acc) ==
  IF Len(digits) = 0 THEN acc
  ELSE LET v == acc * 10 + DigitValue(Head(digits))
       IN  DecimalValue(Tail(digits), IF v > 256 THEN 256 ELSE v)

IsDecimalByte(f) ==
  /\ Len(f) > 0
  /\ \A k \in 1..Len(f) : IsDigit(f[k])
  /\ DecimalValue(f, 0) <= 255

\* A well-formed dotted quad: exactly four dot-separated decimal fields, each
\* in 0..255.
WellFormedQuad(s) ==
  LET fs == SplitDots(s, << >>)
  IN  Len(fs) = 4 /\ \A k \in 1..4 : IsDecimalByte(fs[k])

QuadBytes(s) ==
  LET fs == SplitDots(s, << >>) IN [k \in 1..4 |-> DecimalValue(fs[k], 0)]

\* C3: get_ip fails, with no partial result, for every text that is not a
\* well-formed dotted quad.
C3_MalformedAddressFails ==
  (ret.op = "get_ip" /\ ~WellFormedQuad(self.ip)) =>
     (ret.err # "none" /\ ret.val = << >>)

\* C4: for every well-formed dotted quad a.b.c.d get_ip returns exactly the
\* bytes a, b, c, d (the decimal values of the fields, whatever their leading
\* zeros), so the result renders back to the address and distinct canonical
\* addresses give distinct results.
C4_AddressBytes ==
  (ret.op = "get_ip" /\ WellFormedQuad(self.ip)) =>
     (ret.err = "none" /\ ret.val = QuadBytes(self.ip))

\* C5: get_mac returns exactly 6 bytes, a zero byte followed by the first 5
\* bytes of the MD5 digest of the address text; for "10.0.0.1" that is
\* 00 19 0D AF AB 69.
C5_MacOfAddress ==
  ret.op = "get_mac" =>
     /\ ret.err = "none"
     /\ Len(ret.val) = 6
     /\ ret.val[1] = 0
     /\ SubSeq(ret.val, 2, 6) = SubSeq(md5_digest(self.ip), 1, 5)
     /\ self.ip = DefaultText => ret.val = <<0, 25, 13, 175, 171, 105>>

C5_Witness ==
  /\ ret.op = "get_mac"
  /\ self.ip = DefaultText
  /\ ret.val = <<0, 25, 13, 175, 171, 105>>

(***************************************************************************)
(* Concurrent helper calls on one shared instance.  A call reads the one   *)
(* attribute it uses (self.ip or self.mask), then computes and returns;    *)
(* other threads run between the two steps.                                *)
(***************************************************************************)

NThreads == 2
Threads == 1..NThreads

Methods == {"get_ip", "get_mask", "get_mac"}

\* The instances shared by the threads: addresses that parse, parse oddly and
\* fail, with masks in and out of range.
SharedInstances ==
  [topology : {1}, port : {1},
   ip : { DefaultText, <<"0", "1", "0", ".", "1", ".", "1", ".", "1">>,
          <<"1", ".", "2", "5", "5">>,
          <<"n", "o", "t", "-", "a", "n", "-", "i", "p">> },
   mask : {0 - 1, 0, 24, 33}]

Idle == [pc |-> "idle", op |-> "none", arg |-> << >>, out |-> NoCall]

\* What a method returns (or raises) when it runs alone on rec.
Alone(op, rec) ==
  CASE op = "get_ip" -> {get_ip(rec)}
    [] op = "get_mask" -> get_mask(rec)
    [] op = "get_mac" -> {get_mac(rec)}

InitCalls ==
  /\ self \in SharedInstances
  /\ ret = NoCall
  /\ calls = [t \in Threads |-> Idle]
  /\ IdleTables

\* Thread t enters a method and loads the attribute the method reads.
LoadAttr(t) ==
  /\ calls[t].pc = "idle"
  /\ \E op \in Methods :
       calls' = [calls EXCEPT ![t] =
                   [pc |-> "loaded", op |-> op,
                    arg |-> IF op = "get_mask" THEN self.mask ELSE self.ip,
                    out |-> NoCall]]
  /\ UNCHANGED <<self, ret, tables>>

\* The instance as the method's body sees it: the attribute it loaded.
Loaded(c) ==
  IF c.op = "get_mask" THEN [mask |-> c.arg] ELSE [ip |-> c.arg]

\* A variant of ReturnCall in which get_mask keeps the shift count in
\* self.mask.
ReturnCallStoring(t) ==
  /\ calls[t].pc = "loaded"
  /\ \E r \in Alone(calls[t].op, Loaded(calls[t])) :
       calls' = [calls EXCEPT ![t].pc = "done",
                              ![t].out = Outcome(calls[t].op, r)]
  /\ self' = IF calls[t].op = "get_mask"
               THEN [self EXCEPT !.mask = 32 - calls[t].arg]
               ELSE self
  /\ UNCHANGED <<ret, tables>>

\* Thread t computes the method's result from what it loaded and returns (or
\* raises): no attribute of self is assigned.
ReturnCall(t) ==
  /\ calls[t].pc = "loaded"
  /\ \E r \in Alone(calls[t].op, Loaded(calls[t])) :
       calls' = [calls EXCEPT ![t].pc = "done",
                              ![t].out = Outcome(calls[t].op, r)]
  /\ UNCHANGED <<self, ret, tables>>

\* The caller takes the result.
TakeResult(t) ==
  /\ calls[t].pc = "done"
  /\ calls' = [calls EXCEPT ![t] = Idle]
  /\ UNCHANGED <<self, ret, tables>>

NextCalls == \E t \in Threads : LoadAttr(t) \/ ReturnCall(t) \/ TakeResult(t)

SpecCalls == InitCalls /\ [][NextCalls]_vars

\* A returned call's outcome is one the method gives when run alone on self.
ReturnsAsAlone ==
  \A t \in Threads :
    calls[t].pc = "done" =>
      \E r \in Alone(calls[t].op, self) : calls[t].out = Outcome(calls[t].op, r)

\* C10: get_ip, get_mask and get_mac are pure: every step of a call, failing
\* or not, leaves all fields of the instance and all stored records
\* unchanged, and under any interleaving of calls on the same instance each
\* call returns what it returns when run alone.
C10_HelpersArePure ==
  /\ []ReturnsAsAlone
  /\ [][self' = self /\ UNCHANGED tables]_vars

C10_Witness ==
  /\ calls[1].pc = "done" /\ calls[1].op = "get_mask" /\ calls[1].out.err = "ValueError"
  /\ calls[2].pc = "done" /\ calls[2].op = "get_ip" /\ calls[2].out.err = "none"

(***************************************************************************)
(* Stored records.  The models inherit Model.save() from Django: a save    *)
(* with no primary key inserts a row under the next id, a save with the    *)
(* key of a stored row updates that row.  save() runs no validators: it    *)
(* does not check `choices`, and it checks nothing across rows or tables   *)
(* beyond what the schema declares (unique=True, null=False).  A violated   *)
(* constraint raises IntegrityError and the statement stores nothing.      *)
(* A table is the sequence of its rows, row i having id i; a foreign key   *)
(* holds an id, NULL when unset.  Fields no property reads (boss, admins,  *)
(* owner, visibility, date_updated, lossiness) are left out.               *)
(***************************************************************************)

MaxRows == 2

Names == {"stanford", "cs244a"}
Addresses == { DefaultText, <<"1", "0", ".", "0", ".", "0", ".", "2">> }

\* The ids a save() may carry: none (insert) or a stored row's (update).
Keys(table) == {NULL} \cup (1..Len(table))

\* The table after a save of row under key pk.
Stored(table, pk, row) ==
  IF pk = NULL THEN Append(table, row) ELSE [table EXCEPT ![pk] = row]

Accepted(model, pk, row) == [model |-> model, pk |-> pk, row |-> row, result |-> "ok"]
Rejected(model, pk, row) ==
  [model |-> model, pk |-> pk, row |-> row, result |-> "IntegrityError"]

\* Simulator with unique=True on name only.
SimulatorConflictNameOnly(pk, row) ==
  \E i \in 1..Len(simulators) : i # pk /\ simulators[i].name = row.name

\* Simulator: name = CharField(unique=True), ip = IPAddressField(unique=True).
SimulatorConflict(pk, row) ==
  \E i \in 1..Len(simulators) :
    i # pk /\ (simulators[i].name = row.name \/ simulators[i].ip = row.ip)

\* Organization: name = CharField(unique=True).
OrganizationConflict(pk, row) ==
  \E i \in 1..Len(organizations) : i # pk /\ organizations[i].name = row.name

\* TopologyTemplate: name = CharField(unique=True).
TemplateConflict(pk, row) ==
  \E i \in 1..Len(templates) : i # pk /\ templates[i].name = row.name

InitAccounts ==
  /\ self = DefaultInstance
  /\ ret = NoCall
  /\ calls = << >>
  /\ simulators = EmptyTable /\ organizations = EmptyTable
  /\ templates = EmptyTable /\ links = EmptyTable
  /\ ipassignments = EmptyTable
  /\ status = NoSave

SaveSimulator ==
  /\ \E pk \in Keys(simulators), row \in [name : Names, ip : Addresses] :
       /\ pk = NULL => Len(simulators) < MaxRows
       /\ IF SimulatorConflict(pk, row)
            THEN /\ status' = Rejected("Simulator", pk, row)
                 /\ UNCHANGED simulators
            ELSE /\ status' = Accepted("Simulator", pk, row)
                 /\ simulators' = Stored(simulators, pk, row)
  /\ UNCHANGED <<self, ret, calls, organizations, templates, links, ipassignments>>

\* parentOrg = ForeignKey('self', null=True): any stored Organization, the
\* row itself included, or none.
SaveOrganization ==
  /\ \E pk \in Keys(organizations),
        row \in [name : Names, parentOrg : Keys(organizations)] :
       /\ pk = NULL => Len(organizations) < MaxRows
       /\ IF OrganizationConflict(pk, row)
            THEN /\ status' = Rejected("Organization", pk, row)
                 /\ UNCHANGED organizations
            ELSE /\ status' = Accepted("Organization", pk, row)
                 /\ organizations' = Stored(organizations, pk, row)
  /\ UNCHANGED <<self, ret, calls, simulators, templates, links, ipassignments>>

\* org = ForeignKey(Organization): a stored Organization.
SaveTemplate ==
  /\ \E pk \in Keys(templates),
        row \in [name : Names, org : 1..Len(organizations)] :
       /\ pk = NULL => Len(templates) < MaxRows
       /\ IF TemplateConflict(pk, row)
            THEN /\ status' = Rejected("TopologyTemplate", pk, row)
                 /\ UNCHANGED templates
            ELSE /\ status' = Accepted("TopologyTemplate", pk, row)
                 /\ templates' = Stored(templates, pk, row)
  /\ UNCHANGED <<self, ret, calls, simulators, organizations, links, ipassignments>>

NextAccounts == SaveSimulator \/ SaveOrganization \/ SaveTemplate

SpecAccounts == InitAccounts /\ [][NextAccounts]_vars

\* No two rows of the table agree on the field.
UniqueOn(table, field) ==
  \A i, j \in 1..Len(table) : i # j => table[i][field] # table[j][field]

TableOf(model) ==
  CASE model = "Simulator" -> simulators
    [] model = "Organization" -> organizations
    [] model = "TopologyTemplate" -> templates

UniqueFields(model) == IF model = "Simulator" THEN {"name", "ip"} ELSE {"name"}

\* The id under which the last save() stored its row, NULL if it stored none.
StoredId ==
  IF status.pk # NULL THEN status.pk
  ELSE IF status.result = "ok" THEN Len(TableOf(status.model))
  ELSE NULL

\* The stored rows, other than the one the last save() wrote or was to
\* replace, that carry a unique field of the row it was handed.
Duplicates ==
  {i \in 1..Len(TableOf(status.model)) :
     i # StoredId /\ \E f \in UniqueFields(status.model) :
                       TableOf(status.model)[i][f] = status.row[f]}

\* A save is rejected exactly when it would duplicate a unique field, and an
\* accepted save has stored its row.
RejectedIffDuplicate ==
  status.model # "none" =>
    /\ status.result = "IntegrityError" <=> Duplicates # {}
    /\ status.result = "ok" => TableOf(status.model)[StoredId] = status.row

UniqueKeys ==
  /\ UniqueOn(simulators, "name") /\ UniqueOn(simulators, "ip")
  /\ UniqueOn(organizations, "name")
  /\ UniqueOn(templates, "name")

\* C7: no two stored Simulators share a name or an address, no two
\* Organizations a name, no two TopologyTemplates a name; a save that would
\* create a duplicate is rejected with IntegrityError and leaves the stored
\* records unchanged.
C7_UniqueKeys ==
  /\ [](UniqueKeys /\ RejectedIffDuplicate)
  /\ [][status'.result = "IntegrityError" =>
          UNCHANGED <<simulators, organizations, templates>>]_vars

C7_Witness ==
  /\ Len(simulators) = 2
  /\ status.model = "Simulator" /\ status.result = "IntegrityError"
  /\ status.pk = 2 /\ status.row.ip = simulators[1].ip
  /\ status.row.name # simulators[1].name

\* An Organization's chain of parents, followed for at most n steps, comes
\* back to the Organization o.
RECURSIVE ReachesVia(_, _, _)
ReachesVia(from, o, n) ==
  IF n = 0 \/ from = NULL THEN FALSE
  ELSE organizations[from].parentOrg = o
         \/ ReachesVia(organizations[from].parentOrg, o, n - 1)

\* C9: the parent references form a forest: no Organization is its own
\* ancestor (none is its own parent), so following parentOrg always ends at
\* an Organization with no parent.
C9_ParentsFormForest ==
  \A o \in 1..Len(organizations) : ~ReachesVia(o, o, Len(organizations))

(***************************************************************************)
(* Links and IP assignments of the topologies.  The ports and topologies   *)
(* they refer to are stored already.                                       *)
(***************************************************************************)

Ports == {1, 2}
Topologies == {1}

\* Masks handed to save(): the ends of the declared choices 1..32, a value
\* inside, and the values next to each end.
SavedMasks == {0, 1, 24, 32, 33}

InitTopology == InitAccounts

\* port1, port2 = ForeignKey(Port): NOT NULL columns.
SaveLink ==
  /\ \E pk \in Keys(links), row \in [port1 : Ports \cup {NULL}, port2 : Ports \cup {NULL}] :
       /\ pk = NULL => Len(links) < MaxRows
       /\ IF row.port1 = NULL \/ row.port2 = NULL
            THEN /\ status' = Rejected("Link", pk, row)
                 /\ UNCHANGED links
            ELSE /\ status' = Accepted("Link", pk, row)
                 /\ links' = Stored(links, pk, row)
  /\ UNCHANGED <<self, ret, calls, simulators, organizations, templates, ipassignments>>

\* mask = IntegerField(choices=...): save() stores any integer.
SaveIPAssignment ==
  /\ \E pk \in Keys(ipassignments),
        row \in [topology : Topologies, port : Ports, ip : {DefaultText},
                 mask : SavedMasks] :
       /\ pk = NULL => Len(ipassignments) < MaxRows
       /\ status' = Accepted("IPAssignment", pk, row)
       /\ ipassignments' = Stored(ipassignments, pk, row)
  /\ UNCHANGED <<self, ret, calls, simulators, organizations, templates, links>>

NextTopology == SaveLink \/ SaveIPAssignment

SpecTopology == InitTopology /\ [][NextTopology]_vars

\* C6: every stored IPAssignment has its mask in 1..32: a save with a mask
\* outside (33, say) is rejected and stores nothing.
C6_StoredMaskInRange ==
  /\ \A i \in 1..Len(ipassignments) : ipassignments[i].mask \in 1..32
  /\ (status.model = "IPAssignment" /\ status.row.mask \notin 1..32) =>
        status.result # "ok"

\* C8: every stored Link has two port endpoints, and the two are distinct.
C8_LinkEndpointsDistinct ==
  \A i \in 1..Len(links) :
    /\ links[i].port1 \in Ports /\ links[i].port2 \in Ports
    /\ links[i].port1 # links[i].port2

====
